---- MODULE Spec2Model ----
(***************************************************************************)
(* A model of the rank-indexed splay tree of src/src/tree_array.rs:        *)
(* Node (value, size, left, right), TreeArray (root) and the operations    *)
(* new, get, insert, len and the top-down splay they are built on.         *)
(*                                                                         *)
(* An Option<Box<Node>> is a sequence of length 0 (None) or 1 (Some(n)).   *)
(* A Node is a record [value, size, left, right].                          *)
(***************************************************************************)
EXTENDS Integers, Sequences, FiniteSets, TLC

VARIABLES root, ref, gets, last, build, aborted

vars == <<root, ref, gets, last, build, aborted>>

\* ------------------------------------------------------------------ bounds
\* Numbers of insert and get calls of a behaviour of Spec.
MaxInserts == 6

MaxGets == 3

\* Numbers of insert and get calls of a behaviour of SpecAny.
MaxInsertsAny == 4

MaxGetsAny == 4

\* ------------------------------------------------------------- usize
\* Width of usize in the model.  Every quantity of the model stays within a
\* few units of a multiple of 2^w, so sums, differences and comparisons
\* modulo 2^16 agree with those modulo 2^32 or 2^64.
UsizeBits == 16

Modulus == 2 ^ UsizeBits

\* The two overflow behaviours of a Rust build: overflow checks on (a panic)
\* or off (two's complement wrapping).
Builds == {"debug", "release"}

WrapAdd(a, b) == (a + b) % Modulus

WrapSub(a, b) == (a - b) % Modulus

SubUnderflows(a, b) == a < b

\* ------------------------------------------------------------- Node
None == << >>

Some(n) == << n >>

\* size of an optional child: `match &x { Some(n) => n.size, None => 0 }`
SizeOf(opt) == IF opt = None THEN 0 ELSE opt[1].size

\* Node::new without the node itself in its size.
NodeNewNoSelf(v, l, r) ==
    [value |-> v, size |-> WrapAdd(SizeOf(l), SizeOf(r)), left |-> l, right |-> r]

\* Node::new(v, l, r)
NodeNew(v, l, r) ==
    [value |-> v, size |-> WrapAdd(WrapAdd(1, SizeOf(l)), SizeOf(r)),
     left |-> l, right |-> r]

rel_index(n) == SizeOf(n.left)

\* remove_left: the node after the call, the child it returns, and whether
\* `self.size -= left_size` underflowed.
remove_left(n) ==
    [node  |-> [n EXCEPT !.size = WrapSub(n.size, SizeOf(n.left)), !.left = None],
     child |-> n.left,
     uf    |-> IF SubUnderflows(n.size, SizeOf(n.left)) THEN {"remove_left"} ELSE {}]

remove_right(n) ==
    [node  |-> [n EXCEPT !.size = WrapSub(n.size, SizeOf(n.right)), !.right = None],
     child |-> n.right,
     uf    |-> IF SubUnderflows(n.size, SizeOf(n.right)) THEN {"remove_right"} ELSE {}]

\* ------------------------------------------------------------- splay
\* The two chains of splay.  `l` walks down the right spine of `newright`
\* and `r` down the left spine of `newleft`; a chain is the sequence of the
\* nodes threaded so far, outermost first, and the slot `l` (or `r`) points
\* at is the right (or left) field of its last node.

\* A splice that keeps only the head of the chain.
SpliceRightDropTail(chain, tail) ==
    IF chain = << >> THEN tail ELSE Some(chain[1])

\* `mem::swap(l, &mut node.left)` followed by `node.left = newright`: the
\* last node of the chain receives `tail` in its right field.
RECURSIVE SpliceRight(_, _)
SpliceRight(chain, tail) ==
    IF chain = << >> THEN tail
    ELSE Some([chain[1] EXCEPT !.right = SpliceRight(Tail(chain), tail)])

\* `mem::swap(r, &mut node.right)` followed by `node.right = newleft`.
RECURSIVE SpliceLeft(_, _)
SpliceLeft(chain, tail) ==
    IF chain = << >> THEN tail
    ELSE Some([chain[1] EXCEPT !.left = SpliceLeft(Tail(chain), tail)])

\* State of the loop: the Box in the slot `node`, the two chains, the
\* subtractions that underflowed so far, whether a panic ended the call.
LoopState(node, lchain, rchain, uf, panic) ==
    [node |-> node, lchain |-> lchain, rchain |-> rchain, uf |-> uf, panic |-> panic]

\* The `Less` arm of the loop; `continue` tells whether the loop goes on.
SplayLess(index, node_idx, st, bld) ==
    LET rm       == remove_left(st.node)
        n1       == rm.node
        uf1      == st.uf \cup rm.uf
    IN  IF rm.uf # {} /\ bld = "debug"
        THEN [st |-> LoopState(st.node, st.lchain, st.rchain, uf1, TRUE), continue |-> FALSE]
        ELSE IF rm.child = None
        THEN [st |-> LoopState(n1, st.lchain, st.rchain, uf1, FALSE), continue |-> FALSE]
        ELSE
        LET left     == rm.child[1]
            under    == SubUnderflows(node_idx, 1)
                        \/ SubUnderflows(WrapSub(node_idx, 1), SizeOf(left.right))
            left_idx == WrapSub(WrapSub(node_idx, 1), SizeOf(left.right))
            uf2      == IF under THEN uf1 \cup {"left_idx"} ELSE uf1
        IN  IF under /\ bld = "debug"
            THEN [st |-> LoopState(n1, st.lchain, st.rchain, uf2, TRUE), continue |-> FALSE]
            ELSE IF index < left_idx
            THEN \* rotate right
                 LET \* mem::swap(&mut node.left, &mut left.right)
                     nA   == [n1 EXCEPT !.left = left.right]
                     lA   == [left EXCEPT !.right = n1.left]
                     \* mem::swap(&mut left, node): the slot holds lA, `left` is nA
                     \* left.size += size(left.right)
                     nB   == [nA EXCEPT !.size = WrapAdd(nA.size, SizeOf(nA.right))]
                     \* node.size = left.size + 1
                     lB   == [lA EXCEPT !.size = WrapAdd(nB.size, 1)]
                     \* let none = mem::replace(&mut node.right, Some(left))
                     none == lB.right
                     lC   == [lB EXCEPT !.right = Some(nB)]
                     \* mem::replace(&mut node.left, none)
                     old  == lC.left
                     lD   == [lC EXCEPT !.left = none]
                 IN  IF old = None
                     THEN [st |-> LoopState(lD, st.lchain, st.rchain, uf2, FALSE),
                           continue |-> FALSE]
                     ELSE [st |-> LoopState(old[1], st.lchain, Append(st.rchain, lD), uf2, FALSE),
                           continue |-> TRUE]
            ELSE [st |-> LoopState(left, st.lchain, Append(st.rchain, n1), uf2, FALSE),
                  continue |-> TRUE]

\* The `Greater` arm of the loop.
SplayGreater(index, node_idx, st, bld) ==
    LET rm       == remove_right(st.node)
        n1       == rm.node
        uf1      == st.uf \cup rm.uf
    IN  IF rm.uf # {} /\ bld = "debug"
        THEN [st |-> LoopState(st.node, st.lchain, st.rchain, uf1, TRUE), continue |-> FALSE]
        ELSE IF rm.child = None
        THEN [st |-> LoopState(n1, st.lchain, st.rchain, uf1, FALSE), continue |-> FALSE]
        ELSE
        LET right     == rm.child[1]
            right_idx == WrapAdd(WrapAdd(node_idx, 1), rel_index(right))
        IN  IF index > right_idx
            THEN \* rotate left
                 LET nA   == [n1 EXCEPT !.right = right.left]
                     rA   == [right EXCEPT !.left = n1.right]
                     nB   == [nA EXCEPT !.size = WrapAdd(nA.size, SizeOf(nA.left))]
                     rB   == [rA EXCEPT !.size = WrapAdd(nB.size, 1)]
                     none == rB.left
                     rC   == [rB EXCEPT !.left = Some(nB)]
                     old  == rC.right
                     rD   == [rC EXCEPT !.right = none]
                 IN  IF old = None
                     THEN [st |-> LoopState(rD, st.lchain, st.rchain, uf1, FALSE),
                           continue |-> FALSE]
                     ELSE [st |-> LoopState(old[1], Append(st.lchain, rD), st.rchain, uf1, FALSE),
                           continue |-> TRUE]
            ELSE [st |-> LoopState(right, Append(st.lchain, n1), st.rchain, uf1, FALSE),
                  continue |-> TRUE]

\* `loop { match index.cmp(&node_idx) { ... } }`; node_idx is the value read
\* before the loop.
RECURSIVE SplayLoop(_, _, _, _)
SplayLoop(index, node_idx, st, bld) ==
    IF index = node_idx THEN st
    ELSE CHOOSE out \in
             { IF step.continue THEN SplayLoop(index, node_idx, step.st, bld)
               ELSE step.st :
                   step \in { IF index < node_idx
                              THEN SplayLess(index, node_idx, st, bld)
                              ELSE SplayGreater(index, node_idx, st, bld) } } : TRUE

\* The size repair that ends splay: the two children of the new root, then
\* the root.
FixChild(opt) ==
    IF opt = None THEN None
    ELSE Some([opt[1] EXCEPT !.size = WrapAdd(SizeOf(opt[1].right), SizeOf(opt[1].left))])

\* The end of splay, from the state `st` the loop ends in: the splice of the
\* two chains and the size repair.
SplayFinish(node, st) ==
    LET \* node.left = newright; node.right = newleft
        newright == SpliceRight(st.lchain, st.node.left)
        newleft  == SpliceLeft(st.rchain, st.node.right)
        r        == FixChild(newleft)
        l        == FixChild(newright)
        node_size == WrapAdd(WrapAdd(1, SizeOf(r)), SizeOf(l))
    IN  IF st.panic THEN [node |-> node, uf |-> st.uf, panic |-> TRUE]
        ELSE [node  |-> [st.node EXCEPT !.left = l, !.right = r, !.size = node_size],
              uf    |-> st.uf,
              panic |-> FALSE]

\* splay(index, node): the new Box in the slot, the subtractions that
\* underflowed, and whether the call panicked.
splay(index, node, bld) ==
    CHOOSE out \in
        { SplayFinish(node, st) :
              st \in { SplayLoop(index, rel_index(node),
                                 LoopState(node, << >>, << >>, {}, FALSE), bld) } } : TRUE

\* ------------------------------------------------------------- TreeArray
\* TreeArray::new()
new == None

\* TreeArray::len()
len(rt) == IF rt = None THEN 0 ELSE rt[1].size

\* The value get returns once splay has run: Some(&root.value) or None.
GetResult(index, node) ==
    IF index = rel_index(node) THEN Some(node.value) ELSE None

\* TreeArray::get(index): the root after the call, the value returned, the
\* subtractions that underflowed, and whether the call panicked.
get(index, rt, bld) ==
    IF rt = None
    THEN [root |-> rt, res |-> None, uf |-> {}, panic |-> FALSE]
    ELSE CHOOSE out \in
             { IF sp.panic
               THEN [root |-> rt, res |-> None, uf |-> sp.uf, panic |-> TRUE]
               ELSE [root |-> Some(sp.node), res |-> GetResult(index, sp.node),
                     uf |-> sp.uf, panic |-> FALSE] :
                   sp \in { splay(index, rt[1], bld) } } : TRUE

\* insert once splay has run and returned `sp`.
InsertAtRoot(index, value, rt, sp, bld) ==
    IF sp.panic
    THEN [root |-> rt, uf |-> sp.uf, panic |-> TRUE]
    ELSE
    IF index <= rel_index(sp.node)
    THEN \* Less | Equal
         LET rm   == remove_left(sp.node)
             nw   == NodeNew(value, rm.child, None)
             prev == rm.node
         IN  IF rm.uf # {} /\ bld = "debug"
             THEN [root |-> rt, uf |-> sp.uf \cup rm.uf, panic |-> TRUE]
             ELSE [root  |-> Some([nw EXCEPT !.size = WrapAdd(nw.size, prev.size),
                                             !.right = Some(prev)]),
                   uf    |-> sp.uf \cup rm.uf,
                   panic |-> FALSE]
    ELSE \* Greater
         LET rm   == remove_right(sp.node)
             nw   == NodeNew(value, None, rm.child)
             prev == rm.node
         IN  IF rm.uf # {} /\ bld = "debug"
             THEN [root |-> rt, uf |-> sp.uf \cup rm.uf, panic |-> TRUE]
             ELSE [root  |-> Some([nw EXCEPT !.size = WrapAdd(nw.size, prev.size),
                                             !.left = Some(prev)]),
                   uf    |-> sp.uf \cup rm.uf,
                   panic |-> FALSE]

\* TreeArray::insert(index, value)
insert(index, value, rt, bld) ==
    IF rt = None
    THEN [root |-> Some(NodeNew(value, None, None)), uf |-> {}, panic |-> FALSE]
    ELSE CHOOSE out \in
             { InsertAtRoot(index, value, rt, sp, bld) :
                   sp \in { splay(index, rt[1], bld) } } : TRUE

\* ------------------------------------------------------------- reference
\* Positional insertion on a plain sequence (Vec::insert), rank in 0..Len(s).
RefInsert(s, rank, v) ==
    SubSeq(s, 1, rank) \o << v >> \o SubSeq(s, rank + 1, Len(s))

\* In-order traversal of an optional subtree.
RECURSIVE InOrder(_)
InOrder(opt) ==
    IF opt = None THEN << >>
    ELSE InOrder(opt[1].left) \o << opt[1].value >> \o InOrder(opt[1].right)

\* Every node of the subtree satisfies size == 1 + size(left) + size(right).
RECURSIVE SizesOk(_)
SizesOk(opt) ==
    \/ opt = None
    \/ /\ opt[1].size = 1 + SizeOf(opt[1].left) + SizeOf(opt[1].right)
       /\ SizesOk(opt[1].left)
       /\ SizesOk(opt[1].right)

Min(a, b) == IF a < b THEN a ELSE b

\* ------------------------------------------------------------- state machine
\* root    the TreeArray's root
\* ref     the reference sequence the calls are mirrored on
\* gets    the number of get calls made
\* last    the last call: its name, rank, value, result, the root before it,
\*         and the subtractions that underflowed during it
\* build   whether overflow checks are compiled in
\* aborted a panic has ended the program
Init ==
    /\ root = new
    /\ ref = << >>
    /\ gets = 0
    /\ last = [op |-> "new", rank |-> 0, value |-> 0, res |-> None, pre |-> None, uf |-> {}]
    /\ build \in Builds
    /\ aborted = FALSE

\* t.insert(rank, v); the k-th insert stores the value k.  The mirror
\* appends when rank is beyond its end.  A panic ends the program: the tree
\* is not observed afterwards and no further call is made.
Insert(rank, maxInserts) ==
    /\ ~aborted
    /\ Len(ref) < maxInserts
    /\ \E out \in { insert(rank, Len(ref) + 1, root, build) } :
           /\ root' = out.root
           /\ ref' = IF out.panic THEN ref
                     ELSE RefInsert(ref, Min(rank, Len(ref)), Len(ref) + 1)
           /\ last' = [op |-> "insert", rank |-> rank, value |-> Len(ref) + 1,
                       res |-> None, pre |-> root, uf |-> out.uf]
           /\ aborted' = out.panic
    /\ UNCHANGED <<gets, build>>

\* t.get(rank)
Get(rank, maxGets) ==
    /\ ~aborted
    /\ gets < maxGets
    /\ \E out \in { get(rank, root, build) } :
           /\ root' = out.root
           /\ last' = [op |-> "get", rank |-> rank, value |-> 0, res |-> out.res,
                       pre |-> root, uf |-> out.uf]
           /\ aborted' = out.panic
    /\ gets' = gets + 1
    /\ UNCHANGED <<ref, build>>

\* Callers that keep insert ranks in [0, length].
Next ==
    \/ \E rank \in 0..Len(ref) : Insert(rank, MaxInserts)
    \/ \E rank \in 0..(Len(ref) + 1) : Get(rank, MaxGets)

Spec == Init /\ [][Next]_vars

\* Callers that pass any rank to insert.
NextAny ==
    \/ \E rank \in 0..(Len(ref) + 1) : Insert(rank, MaxInsertsAny)
    \/ \E rank \in 0..(Len(ref) + 1) : Get(rank, MaxGetsAny)

SpecAny == Init /\ [][NextAny]_vars

\* ------------------------------------------------------------- properties
\* The last call was `op` and it returned (it did not panic).
Completed(op) == last.op = op /\ ~aborted

\* Number of occurrences of v in the sequence s.
Count(s, v) == Cardinality({i \in DOMAIN s : s[i] = v})

Range(s) == {s[i] : i \in DOMAIN s}

\* C1: insert(r, v) with 0 <= r <= n on a container whose in-order traversal
\* is S leaves a container whose in-order traversal is S with v inserted at
\* position r.
C1_InsertLaw ==
    (Completed("insert") /\ last.rank <= Len(InOrder(last.pre)))
        => InOrder(root) = RefInsert(InOrder(last.pre), last.rank, last.value)

\* C2: with the calls mirrored on the reference sequence R of n elements,
\* get(i) returns Some(R[i]) for every i < n.
C2_GetMatchesReference ==
    (Completed("get") /\ last.rank < Len(ref))
        => last.res = Some(ref[last.rank + 1])

\* C3: after every completed call every node reachable from the root has
\* size == 1 + size(left) + size(right).
C3_SizeInvariant == ~aborted => SizesOk(root)

\* C4: len() equals the number of insert calls performed so far.
C4_LenCountsInserts == ~aborted => len(root) = Len(ref)

\* C5: in a container of n elements get(i) returns None for every i >= n.
C5_OutOfRangeIsNone ==
    (Completed("get") /\ last.rank >= Len(ref)) => last.res = None

\* C6: get(i) leaves the in-order traversal of the values unchanged, and a
\* second get(i) right after it returns the same result.
C6_GetKeepsSequence ==
    Completed("get")
        => /\ InOrder(root) = InOrder(last.pre)
           /\ \A again \in { get(last.rank, root, build) } :
                  ~again.panic => again.res = last.res

\* The first half of C6 alone: get(i) leaves the in-order traversal unchanged.
GetKeepsInOrder == Completed("get") => InOrder(root) = InOrder(last.pre)

\* C7: on an empty container insert(rank, v), whatever the rank, makes v the
\* sole element: a root of size 1 without children, len() == 1 and
\* get(0) == Some(v).
C7_FirstInsertIsSoleElement ==
    (Completed("insert") /\ last.pre = None)
        => /\ root = Some([value |-> last.value, size |-> 1, left |-> None, right |-> None])
           /\ len(root) = 1
           /\ get(0, root, build).res = Some(last.value)

\* An insert with a rank greater than 0 has been made on the empty container.
C7_Witness ==
    /\ Completed("insert")
    /\ last.pre = None
    /\ last.rank > 0
    /\ root # None

\* C8: on a non-empty tree of n elements whose sizes are right, after
\* splay(r) with r < n (the splay of get(r)) the root is the element that was
\* at rank r and the size of its left subtree is r.
C8_SplayPostcondition ==
    (/\ Completed("get")
     /\ last.pre # None
     /\ SizesOk(last.pre)
     /\ last.rank < Len(InOrder(last.pre)))
        => /\ root[1].value = InOrder(last.pre)[last.rank + 1]
           /\ rel_index(root[1]) = last.rank

\* C9: the multiset of the values stored in the nodes reachable from the
\* root is the multiset of the values inserted so far: no subtree is dropped
\* and no node is duplicated.
C9_NodeConservation ==
    ~aborted =>
        \A v \in Range(ref) \cup Range(InOrder(root)) :
            Count(InOrder(root), v) = Count(ref, v)

\* A get has restructured a tree of at least three nodes and spliced a chain
\* on each side of the new root.
C9_Witness ==
    /\ Completed("get")
    /\ Len(ref) >= 3
    /\ root # last.pre
    /\ root[1].left # None
    /\ root[1].right # None

\* C10: no unsigned subtraction of insert or get underflows, so no call
\* aborts.
C10_NoUnderflow == last.uf = {} /\ ~aborted

====
